---- MODULE Spec2Model ----
(***************************************************************************)
(* Model of the ink! contract SimpleContract (src/lib.rs): a single-item   *)
(* escrow between a seller and a buyer.  The state is the contract storage *)
(* (four Mappings and four plain fields); there is one action per message. *)
(* A message that panics stops at the panic: what it wrote before the      *)
(* panic is kept in the tables, as the code performs it.                   *)
(***************************************************************************)
EXTENDS Integers, Sequences, FiniteSets, TLC

\* ---------------------------------------------------------------- bounds
BalanceMax == 2      \* stands for the largest value of the Balance type
MaxCalls == 3        \* messages sent to one contract instance

\* ----------------------------------------------------------------- types
\* AccountId::default(), the value of seller and buyer before they are set
DefaultAccount == 0

Parties == {1, 2, 3}

AccountId == {DefaultAccount} \cup Parties

\* Hash::default()
DefaultHash == 0

Hash == {DefaultHash, 1}

Balance == 0 .. BalanceMax

\* The amounts and prices the messages are sent with: zero, one and the
\* largest Balance.
Amounts == {0, 1, BalanceMax}

\* The account that instantiates the contract.
Deployer == CHOOSE q \in Parties : TRUE

\* Option<T>: None, or Some(x)
None == << >>

Some(x) == << x >>

unwrap(o) == o[1]

unwrap_or_default(o) == IF o = None THEN 0 ELSE o[1]

\* Mapping<AccountId, T>: a function AccountId -> Option<T>
EmptyMapping == [a \in AccountId |-> None]

contains(m, k) == m[k] # None

insert(m, k, v) == [m EXCEPT ![k] = Some(v)]

remove(m, k) == [m EXCEPT ![k] = None]

\* vec![] where the code builds vec![(asset, price)]
Vec1_empty(item, p) == << >>

\* vec![(asset, price)]
Vec1(item, p) == << << item, p >> >>

VARIABLES
    seller_fund,      \* Mapping<AccountId, Balance>
    seller_asset,     \* Mapping<AccountId, Vec<(Hash, Balance)>>
    buyer_fund,       \* Mapping<AccountId, Balance>
    buyer_asset,      \* Mapping<AccountId, Vec<(Hash, Balance)>>
    seller,           \* AccountId
    buyer,            \* AccountId
    price,            \* Balance
    asset,            \* Hash
    terminated,       \* terminate_contract has been called
    call,             \* the last message: its name, caller, target, outcome
    ncalls,           \* number of messages sent so far
    depositors        \* history: the accounts whose buyer_deposit_money
                      \* returned, the most recent one last

storage == << seller_fund, seller_asset, buyer_fund, buyer_asset,
              seller, buyer, price, asset >>

vars == << seller_fund, seller_asset, buyer_fund, buyer_asset,
           seller, buyer, price, asset, terminated, call, ncalls,
           depositors >>

Call(op, c, id, result) ==
    [op |-> op, caller |-> c, id |-> id, result |-> result]

Ok == "ok"

\* ---------------------------------------------------------- constructors
\* new_sell that leaves the seller field unset
new_sell_no_seller(c, init_item, init_price) ==
    /\ asset = init_item
    /\ price = init_price
    /\ seller = DefaultAccount
    /\ buyer = DefaultAccount
    /\ seller_asset = insert(EmptyMapping, c, Vec1(init_item, init_price))
    /\ seller_fund = EmptyMapping
    /\ buyer_fund = EmptyMapping
    /\ buyer_asset = EmptyMapping
    /\ call = Call("new_sell", c, DefaultAccount, Ok)

new_sell(c, init_item, init_price) ==
    /\ asset = init_item
    /\ price = init_price
    /\ seller = c
    /\ buyer = DefaultAccount
    /\ seller_asset = insert(EmptyMapping, c, Vec1(init_item, init_price))
    /\ seller_fund = EmptyMapping
    /\ buyer_fund = EmptyMapping
    /\ buyer_asset = EmptyMapping
    /\ call = Call("new_sell", c, DefaultAccount, Ok)

sell_default(c) ==
    /\ asset = DefaultHash
    /\ price = 0
    /\ seller = DefaultAccount
    /\ buyer = DefaultAccount
    /\ seller_asset = EmptyMapping
    /\ seller_fund = EmptyMapping
    /\ buyer_fund = EmptyMapping
    /\ buyer_asset = EmptyMapping
    /\ call = Call("sell_default", c, DefaultAccount, Ok)

Init ==
    /\ terminated = FALSE
    /\ ncalls = 0
    /\ depositors = << >>
    /\ \/ \E i \in Hash, p \in Amounts : new_sell(Deployer, i, p)
       \/ sell_default(Deployer)

\* ------------------------------------------------------------- messages
\* A message sent to an instance that terminate_contract destroyed does not
\* run: nothing is written.
Rejected(op, c, id) ==
    /\ call' = Call(op, c, id, "terminated")
    /\ UNCHANGED << storage, terminated, depositors >>

\* A panic before any write of the message.
Panic(op, c, id, msg) ==
    /\ call' = Call(op, c, id, msg)
    /\ UNCHANGED << storage, terminated, depositors >>

Sent ==
    /\ ncalls < MaxCalls
    /\ ncalls' = ncalls + 1

\* asset_exists with the existence check left out
asset_exists_never(c) == FALSE

asset_exists(c) == contains(seller_asset, c)

\* insert_asset that lists the item at the contract's price field
insert_asset_contract_price(c, item, p) ==
    /\ Sent
    /\ IF terminated THEN Rejected("insert_asset", c, DefaultAccount)
       ELSE IF asset_exists(c)
            THEN Panic("insert_asset", c, DefaultAccount, "Asset exists")
       ELSE /\ seller_asset' = insert(seller_asset, c, Vec1(item, price))
            /\ call' = Call("insert_asset", c, DefaultAccount, Ok)
            /\ UNCHANGED << seller_fund, buyer_fund, buyer_asset, seller, buyer,
                            price, asset, terminated, depositors >>

insert_asset(c, item, p) ==
    /\ Sent
    /\ IF terminated THEN Rejected("insert_asset", c, DefaultAccount)
       ELSE IF asset_exists(c)
            THEN Panic("insert_asset", c, DefaultAccount, "Asset exists")
       ELSE /\ seller_asset' = insert(seller_asset, c, Vec1(item, p))
            /\ call' = Call("insert_asset", c, DefaultAccount, Ok)
            /\ UNCHANGED << seller_fund, buyer_fund, buyer_asset, seller, buyer,
                            price, asset, terminated, depositors >>

\* deposit_check without the "Seller can't do this" check
deposit_check_no_seller(c, id) ==
    IF c = id THEN "You own your asset"
    ELSE IF ~contains(seller_asset, id) THEN "Not available yet"
    ELSE Ok

\* The panic, if any, that ends buyer_deposit_money after the balance write.
deposit_check(c, id) ==
    IF c = id THEN "You own your asset"
    ELSE IF c = seller THEN "Seller can't do this"
    ELSE IF ~contains(seller_asset, id) THEN "Not available yet"
    ELSE Ok

\* self.buyer = caller runs once the first two checks have passed.
deposit_buyer(c, id) ==
    IF c = id \/ c = seller THEN buyer ELSE c

\* c moved to the end of the history of accounts whose deposit returned.
Recorded(c) == SelectSeq(depositors, LAMBDA d : d # c) \o << c >>

\* The writes and the checks of buyer_deposit_money once the new balance
\* `fund` is known.
deposit_write(c, id, fund) ==
    /\ buyer_fund' = insert(remove(buyer_fund, c), c, fund)
    /\ buyer' = deposit_buyer(c, id)
    /\ call' = Call("buyer_deposit_money", c, id, deposit_check(c, id))
    /\ depositors' = IF deposit_check(c, id) = Ok THEN Recorded(c) ELSE depositors
    /\ UNCHANGED << seller_fund, seller_asset, buyer_asset, seller,
                    price, asset, terminated >>

\* previous + money on the Balance type: beyond BalanceMax the addition
\* panics in a build with overflow checks and wraps in a build without.
buyer_deposit_money(c, id, money) ==
    /\ Sent
    /\ IF terminated THEN Rejected("buyer_deposit_money", c, id)
       ELSE LET sum == unwrap_or_default(buyer_fund[c]) + money IN
            IF sum > BalanceMax
            THEN \/ Panic("buyer_deposit_money", c, id,
                          "attempt to add with overflow")
                 \/ deposit_write(c, id, sum % (BalanceMax + 1))
            ELSE deposit_write(c, id, sum)

settle_assert(c, id) == contains(seller_asset, c) /\ contains(buyer_fund, id)

\* not_enough_fund with its operands swapped
not_enough_fund_swapped(fund, p) == p < fund

not_enough_fund(fund, p) == fund < p

\* settle_change that stores the change also when it is zero
settle_change_keep_zero(m, id, money) == insert(remove(m, id), id, money)

\* The buyer's balance entry after a settlement that leaves `money` as change.
settle_change(m, id, money) ==
    IF money > 0 THEN insert(remove(m, id), id, money) ELSE remove(m, id)

\* settle that asserts the listing alone and reads a missing balance as 0
settle_fund_defaulted(c, id) ==
    /\ Sent
    /\ IF terminated THEN Rejected("settle", c, id)
       ELSE IF ~contains(seller_asset, c)
            THEN Panic("settle", c, id, "No asset or fund")
       ELSE LET item == unwrap(seller_asset[c])[1][1]
                p == unwrap(seller_asset[c])[1][2]
                fund == unwrap_or_default(buyer_fund[id])
            IN IF not_enough_fund(fund, p)
               THEN Panic("settle", c, id, "Not enough fund")
               ELSE /\ buyer_asset' = insert(buyer_asset, id, Vec1(item, p))
                    /\ buyer_fund' = settle_change(buyer_fund, id, fund - p)
                    /\ seller_asset' = remove(seller_asset, c)
                    /\ seller_fund' = insert(seller_fund, c, p)
                    /\ terminated' = TRUE
                    /\ call' = Call("settle", c, id, Ok)
                    /\ UNCHANGED << seller, buyer, price, asset, depositors >>

\* settle without the final terminate_contract
settle_no_terminate(c, id) ==
    /\ Sent
    /\ IF terminated THEN Rejected("settle", c, id)
       ELSE IF ~settle_assert(c, id)
            THEN Panic("settle", c, id, "No asset or fund")
       ELSE LET item == unwrap(seller_asset[c])[1][1]
                p == unwrap(seller_asset[c])[1][2]
                fund == unwrap(buyer_fund[id])
            IN IF not_enough_fund(fund, p)
               THEN Panic("settle", c, id, "Not enough fund")
               ELSE /\ buyer_asset' = insert(buyer_asset, id, Vec1(item, p))
                    /\ buyer_fund' = settle_change(buyer_fund, id, fund - p)
                    /\ seller_asset' = remove(seller_asset, c)
                    /\ seller_fund' = insert(seller_fund, c, p)
                    /\ call' = Call("settle", c, id, Ok)
                    /\ UNCHANGED << seller, buyer, price, asset, depositors,
                                    terminated >>

settle(c, id) ==
    /\ Sent
    /\ IF terminated THEN Rejected("settle", c, id)
       ELSE IF ~settle_assert(c, id)
            THEN Panic("settle", c, id, "No asset or fund")
       ELSE LET item == unwrap(seller_asset[c])[1][1]
                p == unwrap(seller_asset[c])[1][2]
                fund == unwrap(buyer_fund[id])
            IN IF not_enough_fund(fund, p)
               THEN Panic("settle", c, id, "Not enough fund")
               ELSE /\ buyer_asset' = insert(buyer_asset, id, Vec1(item, p))
                    /\ buyer_fund' = settle_change(buyer_fund, id, fund - p)
                    /\ seller_asset' = remove(seller_asset, c)
                    /\ seller_fund' = insert(seller_fund, c, p)
                    /\ terminated' = TRUE
                    /\ call' = Call("settle", c, id, Ok)
                    /\ UNCHANGED << seller, buyer, price, asset, depositors >>

\* The Option that total_status matches on for `id`: the seller's listing,
\* the current buyer's holding, or nothing for any other account.
status_vec(id) ==
    IF id = seller THEN seller_asset[id]
    ELSE IF id = buyer THEN buyer_asset[id]
    ELSE None

\* total_status, a read-only message: the text it formats, as a tuple.
total_status(id) ==
    IF id = seller
    THEN IF contains(seller_asset, id)
         THEN << "Current item", unwrap(seller_asset[id])[1][1],
                 unwrap(seller_asset[id])[1][2],
                 unwrap_or_default(seller_fund[id]) >>
         ELSE << "No item data", unwrap_or_default(seller_fund[id]) >>
    ELSE IF id = buyer
    THEN IF contains(buyer_asset, id)
         THEN << "Current item", unwrap(buyer_asset[id])[1][1],
                 unwrap(buyer_asset[id])[1][2],
                 unwrap_or_default(buyer_fund[id]) >>
         ELSE << "No item data", unwrap_or_default(buyer_fund[id]) >>
    ELSE << "No data" >>

Next ==
    \/ \E c \in Parties, i \in Hash, p \in Amounts : insert_asset(c, i, p)
    \/ \E c \in Parties, id \in Parties, m \in Amounts : buyer_deposit_money(c, id, m)
    \/ \E c \in Parties, id \in Parties : settle(c, id)

Spec == Init /\ [][Next]_vars

\* ------------------------------------------------------------ properties
\* The step is message `op` reaching a contract that is not terminated; its
\* caller and target are call'.caller and call'.id.
Did(op) == ncalls' = ncalls + 1 /\ ~terminated /\ call'.op = op

ListingOf(c) == unwrap(seller_asset[c])[1]

PriceOf(c) == ListingOf(c)[2]

FundOf(t) == unwrap(buyer_fund[t])

SettleOk == call.op = "settle" /\ call.result = Ok

\* C1: a settle(t) by c whose listing is {item, price}, with t's buyer
\* balance b >= price, succeeds and leaves t holding {item, price}, t's
\* balance b - price (no entry when b = price), c without listing, c's seller
\* balance price and the contract terminated; a settle step that does not do
\* all of this writes nothing.
SettleAtomic ==
    [][Did("settle") =>
         LET c == call'.caller
             t == call'.id
         IN IF contains(seller_asset, c) /\ contains(buyer_fund, t)
                  /\ FundOf(t) >= PriceOf(c)
            THEN /\ call'.result = Ok
                 /\ buyer_asset'[t] = Some(<< ListingOf(c) >>)
                 /\ buyer_fund'[t] = IF FundOf(t) > PriceOf(c)
                                     THEN Some(FundOf(t) - PriceOf(c))
                                     ELSE None
                 /\ seller_asset'[c] = None
                 /\ seller_fund'[c] = Some(PriceOf(c))
                 /\ terminated'
            ELSE UNCHANGED << storage, terminated >>]_vars

\* C1 witness: a settlement that took exactly the buyer's balance.
SettledExact ==
    /\ SettleOk
    /\ terminated
    /\ contains(buyer_asset, call.id)
    /\ ~contains(buyer_fund, call.id)
    /\ ~contains(seller_asset, call.caller)
    /\ contains(seller_fund, call.caller)

\* C2: a buyer_deposit_money that fails a precondition (caller = target,
\* caller is the seller, target has no listing) leaves the buyer balance
\* table as it was.
DepositRollback ==
    [][(Did("buyer_deposit_money")
          /\ (call'.caller = call'.id \/ call'.caller = seller
                \/ ~contains(seller_asset, call'.id)))
         => buyer_fund' = buyer_fund]_vars

AtMostOneListing ==
    \A a \in AccountId :
        contains(seller_asset, a) => Len(unwrap(seller_asset[a])) = 1

\* C3: every party has at most one active listing in every reachable state,
\* and an insert_asset by a party that holds a listing fails and leaves that
\* listing and every other table unchanged.
SingleListing ==
    /\ AtMostOneListing
    /\ [][/\ AtMostOneListing'
          /\ (Did("insert_asset") /\ contains(seller_asset, call'.caller))
                => (call'.result # Ok /\ UNCHANGED << storage, terminated >>)]_vars

\* C3 witness: insert_asset was refused to a party that holds a listing.
InsertRefused ==
    /\ call.op = "insert_asset"
    /\ call.result = "Asset exists"
    /\ contains(seller_asset, call.caller)

Last(q) == q[Len(q)]

InSeq(x, q) == \E k \in 1 .. Len(q) : q[k] = x

\* C4: a settle against a party that deposited successfully succeeds only
\* if that party is the current buyer, the most recent successful depositor;
\* a settle against an earlier depositor fails.
OnlyCurrentBuyer ==
    (SettleOk /\ InSeq(call.id, depositors)) => call.id = Last(depositors)

\* C5: once a settle has succeeded, every further insert_asset,
\* buyer_deposit_money and settle is rejected and changes no table, so no
\* second settle succeeds.
Terminality ==
    [][((SettleOk \/ terminated) /\ ncalls' = ncalls + 1) =>
          (call'.result = "terminated" /\ terminated' /\ UNCHANGED storage)]_vars

\* C5 witness: a message was sent after the settlement and was rejected.
RejectedAfterSettle ==
    /\ terminated
    /\ call.result = "terminated"
    /\ \E a \in AccountId : contains(buyer_asset, a)

\* C6: a settle(t) by c whose listing costs more than t's buyer balance
\* fails and changes no table, no role and not the termination status.
InsufficientFunds ==
    [][(Did("settle")
          /\ contains(seller_asset, call'.caller) /\ contains(buyer_fund, call'.id)
          /\ FundOf(call'.id) < PriceOf(call'.caller))
         => (call'.result # Ok /\ UNCHANGED << storage, terminated >>)]_vars

\* C6 witness: a settle was refused for lack of funds.
SettleRefusedForFunds ==
    /\ call.op = "settle"
    /\ call.result = "Not enough fund"
    /\ contains(seller_asset, call.caller)
    /\ contains(buyer_fund, call.id)
    /\ FundOf(call.id) < PriceOf(call.caller)
    /\ ~terminated

\* C7: a settle(t) by c fails when c has no listing or t has no buyer
\* balance entry; the state is unchanged and the contract not terminated.
NoAssetOrFund ==
    [][(Did("settle")
          /\ (~contains(seller_asset, call'.caller)
                \/ ~contains(buyer_fund, call'.id)))
         => (call'.result # Ok /\ UNCHANGED storage /\ ~terminated')]_vars

\* C7 witness: a settle by a party with a listing was refused because the
\* target has no buyer balance entry.
SettleRefusedNoFund ==
    /\ call.op = "settle"
    /\ call.result = "No asset or fund"
    /\ contains(seller_asset, call.caller)
    /\ ~contains(buyer_fund, call.id)
    /\ ~terminated

DepositEffect ==
    [][\A c \in Parties, t \in Parties, m \in Amounts :
         (~terminated /\ buyer_deposit_money(c, t, m) /\ call'.result = Ok)
            => /\ buyer_fund'[c] = Some(unwrap_or_default(buyer_fund[c]) + m)
               /\ buyer' = c
               /\ \A a \in AccountId \ {c} : buyer_fund'[a] = buyer_fund[a]
               /\ UNCHANGED << seller_asset, buyer_asset, seller_fund,
                               seller >>]_vars

RECURSIVE SumOver(_, _)
SumOver(m, S) ==
    IF S = {} THEN 0
    ELSE LET a == CHOOSE x \in S : TRUE
         IN unwrap_or_default(m[a]) + SumOver(m, S \ {a})

TotalFunds == SumOver(buyer_fund, AccountId) + SumOver(seller_fund, AccountId)

\* C10: settle moves funds without creating or destroying any, and over any
\* sequence of calls the total of all balance entries grows by exactly the
\* amounts of the successful deposits.
FundsConserved ==
    [][/\ \A c \in Parties, t \in Parties :
            (~terminated /\ settle(c, t)) =>
               /\ TotalFunds' = TotalFunds
               /\ unwrap_or_default(buyer_fund'[t]) + unwrap_or_default(seller_fund'[c])
                     = unwrap_or_default(buyer_fund[t]) + unwrap_or_default(seller_fund[c])
       /\ \A c \in Parties, i \in Hash, p \in Amounts :
            insert_asset(c, i, p) => TotalFunds' = TotalFunds
       /\ \A c \in Parties, t \in Parties, m \in Amounts :
            (~terminated /\ buyer_deposit_money(c, t, m)) =>
               TotalFunds' = TotalFunds + (IF call'.result = Ok THEN m ELSE 0)]_vars

NonNegative(m) == \A a \in AccountId : contains(m, a) => unwrap(m[a]) >= 0

\* C11: every entry of the seller balance table and of the buyer balance
\* table is >= 0 in every reachable state, and settle subtracts the price
\* only from a balance that is at least the price.
NoNegativeBalances ==
    /\ NonNegative(seller_fund) /\ NonNegative(buyer_fund)
    /\ [][/\ NonNegative(seller_fund') /\ NonNegative(buyer_fund')
          /\ (Did("settle") /\ call'.result = Ok)
                => FundOf(call'.id) >= PriceOf(call'.caller)]_vars

\* C11 witness: a settlement left the buyer a positive change.
SettledWithChange ==
    /\ SettleOk
    /\ contains(buyer_fund, call.id)
    /\ FundOf(call.id) > 0
    /\ contains(seller_fund, call.caller)

\* C12: right after new_sell(asset, price) by S the seller is S, S's listing
\* is the single pair (asset, price), no other party has a listing, and the
\* two balance tables and the holding table are empty.
NewSellPostcondition ==
    (ncalls = 0 /\ call.op = "new_sell") =>
        /\ seller = call.caller
        /\ seller_asset = insert(EmptyMapping, call.caller, << << asset, price >> >>)
        /\ seller_fund = EmptyMapping
        /\ buyer_fund = EmptyMapping
        /\ buyer_asset = EmptyMapping

\* C12 witness: the contract as new_sell leaves it, with a non-default item
\* at a positive price.
JustCreatedWithListing ==
    /\ ncalls = 0
    /\ call.op = "new_sell"
    /\ asset # DefaultHash
    /\ price > 0
    /\ contains(seller_asset, seller)

\* C13: after sell_default no party has a listing; insert_asset(item, price)
\* by a party without listing succeeds, leaves that party the single listing
\* (item, price) and changes no balance table, no holding and no other
\* party's listing.
InsertAssetSuccess ==
    /\ (call.op = "sell_default" => seller_asset = EmptyMapping)
    /\ [][(Did("insert_asset") /\ ~contains(seller_asset, call'.caller)) =>
            /\ call'.result = Ok
            /\ \A i \in Hash, p \in Amounts :
                  insert_asset(call'.caller, i, p) =>
                     seller_asset' = insert(seller_asset, call'.caller, << << i, p >> >>)
            /\ UNCHANGED << seller_fund, buyer_fund, buyer_asset >>]_vars

\* C13 witness: the first listing of a contract made by sell_default.
InsertedAfterDefault ==
    /\ call.op = "insert_asset"
    /\ call.result = Ok
    /\ seller = DefaultAccount
    /\ contains(seller_asset, call.caller)
    /\ PriceOf(call.caller) > 0

\* C14: a buyer_deposit_money that fails because its target holds no listing
\* (caller is neither the target nor the seller) leaves the seller and the
\* current buyer as they were.
FailedDepositKeepsRoles ==
    [][(Did("buyer_deposit_money")
          /\ call'.caller # call'.id /\ call'.caller # seller
          /\ ~contains(seller_asset, call'.id))
         => (call'.result # Ok /\ buyer' = buyer /\ seller' = seller)]_vars

\* C15: a successful settle(t) by c comes after a successful listing by c
\* and after a successful buyer_deposit_money by t; a party whose deposits
\* all failed is never settled against.
SettledOnlyAfterDeposit ==
    [][(Did("settle") /\ call'.result = Ok)
         => /\ contains(seller_asset, call'.caller)
            /\ InSeq(call'.id, depositors)]_vars

\* C16: every party that holds a listing is the designated seller.
ListingHolderIsSeller ==
    \A a \in AccountId : contains(seller_asset, a) => a = seller

Entries(m) == {a \in AccountId : contains(m, a)}

\* C17: while the contract is not terminated the holding table and the
\* seller balance table are empty; once a settle has succeeded each holds
\* exactly one entry.
HoldingsOnlyAfterSettle ==
    /\ ~terminated => (buyer_asset = EmptyMapping /\ seller_fund = EmptyMapping)
    /\ terminated => (Cardinality(Entries(buyer_asset)) = 1
                        /\ Cardinality(Entries(seller_fund)) = 1)

\* C17 witness: the settlement made the one holding and the one seller
\* balance.
OneHoldingOneSellerBalance ==
    /\ terminated
    /\ Entries(buyer_asset) = {call.id}
    /\ Entries(seller_fund) = {call.caller}
    /\ SettleOk

\* C18: a buyer_deposit_money whose previous balance + amount exceeds the
\* largest Balance fails and leaves the state unchanged; the wrapped sum is
\* never stored.  Stated for deposits that pass the three precondition
\* checks, so that only the addition can make the call fail.
OverflowFails ==
    [][\A m \in Amounts :
         (Did("buyer_deposit_money")
            /\ call'.caller # call'.id /\ call'.caller # seller
            /\ contains(seller_asset, call'.id)
            /\ unwrap_or_default(buyer_fund[call'.caller]) + m > BalanceMax
            /\ buyer_deposit_money(call'.caller, call'.id, m))
           => (call'.result # Ok /\ UNCHANGED storage)]_vars

\* C19: no successful settle has its caller as target, stated for targets
\* whose own deposit succeeded: no party receives as holding the asset it
\* listed itself.
NoSelfSettlement ==
    (SettleOk /\ InSeq(call.id, depositors)) => call.caller # call.id

OnePair(v) == Len(v) = 1 /\ Len(v[1]) = 2 /\ v[1][1] \in Hash /\ v[1][2] \in Balance

\* C20: every entry of the listing table and of the holding table is a
\* sequence of exactly one (asset, price) pair, so the index-0 reads of
\* settle and total_status are in bounds.
OnePairEntries ==
    /\ \A a \in AccountId :
          /\ contains(seller_asset, a) => OnePair(unwrap(seller_asset[a]))
          /\ contains(buyer_asset, a) => OnePair(unwrap(buyer_asset[a]))
    /\ \A id \in AccountId :
          status_vec(id) # None =>
             /\ Len(unwrap(status_vec(id))) >= 1
             /\ total_status(id)[1] = "Current item"

\* C20 witness: total_status reads index 0 of the current buyer's holding.
StatusReadsHolding ==
    /\ buyer # seller
    /\ contains(buyer_asset, buyer)
    /\ total_status(buyer) = << "Current item", unwrap(buyer_asset[buyer])[1][1],
                                unwrap(buyer_asset[buyer])[1][2],
                                unwrap_or_default(buyer_fund[buyer]) >>

====
